---- MODULE Spec2Model ----
(***************************************************************************)
(* Model of the SAP tool-calling adapters: the stdio server (main, Config, *)
(* SAPService, SAPMCPServer) and the HTTP server (BTPDestinationService,   *)
(* list_destinations, query_northwind).                                    *)
(*                                                                         *)
(* Conventions.  A text is a sequence of string pieces, in output order:   *)
(* the literal parts of a template literal are cut into pieces and every   *)
(* ${...} hole is one piece (numbers through ToString).  Emoji and the     *)
(* bullet of the sources are written in ASCII ("(x)", "*").  The JS value  *)
(* undefined in a string slot is the piece "undefined", which is also what *)
(* a template literal prints for it.  Tool arguments are tagged values.    *)
(* An async handler is cut at its awaits: one action per segment.          *)
(***************************************************************************)
EXTENDS Integers, Sequences, FiniteSets, TLC

\* ---- state ----
VARIABLES
    env,                 \* stdio server: the required variables that are set in process.env
    mainPc,              \* stdio server: position of main()
    exitCode,            \* stdio server: argument of process.exit, -1 while running
    registered,          \* stdio server: names registered with server.tool
    connected,           \* stdio server: server.connect(transport) has resolved
    probeSent,           \* stdio server: the startup healthCheck request was issued
    destinationService,  \* HTTP server: btpService.destinationService
    btpService,          \* HTTP server: btpService is an object
    call,                \* the tool call in progress or last finished
    lastHealth,          \* HTTP server: the last response of GET /health
    memo,                \* history: the finished call that the call in progress repeats
    messageId,           \* client: MCPClient.messageId
    pendingRequests,     \* client: MCPClient.pendingRequests, id -> the promise it settles
    sent                 \* client: the promises sendMCPMessage has returned, in order

\* ---- bounds ----
MaxRows == 2
MaxSkip == 2
MaxRequests == 3

\* ---- JS values ----
UNDEF == "undefined"

Undefined == [type |-> "undefined", num |-> 0, str |-> UNDEF]

Num(n) == [type |-> "number", num |-> n, str |-> ""]

Str(s) == [type |-> "string", num |-> 0, str |-> s]

\* truthiness of a string slot: undefined and '' are falsy
Truthy(s) == s # UNDEF /\ s # ""

\* a || b on string slots
OrElse(a, b) == IF Truthy(a) THEN a ELSE b

Range(s) == {s[i] : i \in 1..Len(s)}

Count(s, x) == Cardinality({i \in 1..Len(s) : s[i] = x})

RECURSIVE Join(_, _)
\* Array.prototype.join on an array of texts
Join(lines, sep) ==
    IF Len(lines) = 0 THEN <<>>
    ELSE IF Len(lines) = 1 THEN lines[1]
    ELSE lines[1] \o <<sep>> \o Join(Tail(lines), sep)

\* a completion of a piece of code: it returns a value or throws an Error
Returned(v) == [kind |-> "return", value |-> v, message |-> <<>>]

Thrown(msg) == [kind |-> "throw", value |-> <<>>, message |-> msg]

\* the ToolResult object literal every handler returns
ToolResult(text) == <<[type |-> "text", text |-> text]>>

\* ---- Config (stdio server) ----
Required == {"SAP_BASE_URL", "SAP_USERNAME", "SAP_PASSWORD"}

\* a validate that forgets SAP_PASSWORD
ConfigValidate_NoPassword(e) ==
    LET missing == {k \in Required \ {"SAP_PASSWORD"} : k \notin e}
    IN  IF missing # {} THEN Thrown(<<"Missing required environment variables:">>)
        ELSE Returned(<<>>)

\* Config.validate: throws when a required variable is unset or empty
ConfigValidate(e) ==
    LET missing == {k \in Required : k \notin e}
    IN  IF missing # {} THEN Thrown(<<"Missing required environment variables:">>)
        ELSE Returned(<<>>)

productService == "/sap/opu/odata/sap/API_PRODUCT_SRV"

\* ---- backend envelopes and replies (stdio server, direct path) ----
Product(id, desc, cat) == [ProductID |-> id, Description |-> desc, Category |-> cat]

Rows == {Product("P1", "Widget", "Tools"), Product("P2", UNDEF, "")}

RowArrays == UNION {[1..n -> Rows] : n \in 0..MaxRows}

ShortRowArrays == UNION {[1..n -> Rows] : n \in 0..1}

\* a response body: null, or an object with optional d, d.results and value
Body(isNull, hasD, hasResults, results, hasValue, value) ==
    [isNull |-> isNull, hasD |-> hasD, hasResults |-> hasResults,
     results |-> results, hasValue |-> hasValue, value |-> value]

NullBody == Body(TRUE, FALSE, FALSE, <<>>, FALSE, <<>>)

Envelopes ==
    {Body(FALSE, FALSE, FALSE, <<>>, FALSE, <<>>), Body(FALSE, TRUE, FALSE, <<>>, FALSE, <<>>)}
    \cup {Body(FALSE, TRUE, TRUE, a, FALSE, <<>>) : a \in RowArrays}
    \cup {Body(FALSE, FALSE, FALSE, <<>>, TRUE, a) : a \in RowArrays}
    \cup {Body(FALSE, TRUE, FALSE, <<>>, TRUE, a) : a \in ShortRowArrays}
    \cup {Body(FALSE, TRUE, TRUE, a, TRUE, b) : a \in ShortRowArrays, b \in ShortRowArrays}

\* what axios hands to the caller or to the response interceptor
Reply(status, code, statusText, sapMessage, message, body) ==
    [status |-> status, code |-> code, statusText |-> statusText,
     sapMessage |-> sapMessage, message |-> message, body |-> body]

OkReply(body) == Reply("ok", "200", "OK", UNDEF, "", body)

BackendFailures ==
    {Reply("rejected", "500", "Internal Server Error", "Resource not found for segment ProductSet",
           "Request failed with status code 500", NullBody),
     Reply("rejected", "401", "Unauthorized", UNDEF,
           "Request failed with status code 401", NullBody),
     Reply("network", UNDEF, UNDEF, UNDEF, "timeout of 30000ms exceeded", NullBody)}

BackendReplies == {OkReply(b) : b \in Envelopes \cup {NullBody}} \cup BackendFailures

\* ---- SAPService ----
SAPServiceMethods == {"createAxiosClient", "formatError", "getProducts", "healthCheck"}

\* SAPService.formatError: the message of the Error it builds
formatError(error) ==
    IF Truthy(error.sapMessage) THEN <<error.sapMessage>>
    ELSE <<"SAP", "API", "Error:", error.code, error.statusText, "-", error.message>>

\* the response interceptor of createAxiosClient
Interceptor(reply) ==
    IF reply.status = "ok" THEN Returned(reply.body) ELSE Thrown(formatError(reply))

\* getProducts testing search !== undefined instead of its truthiness
getProductsUrl_FilterOnEmpty(top, skip, search) ==
    <<productService, "/ProductSet", "?$top=", ToString(top), "&$skip=", ToString(skip), "&$format=json">>
    \o (IF search # UNDEF
        THEN <<"&$filter=contains(ProductDescription,'", search, "')">>
        ELSE <<>>)

\* SAPService.getProducts up to its await: the URL it requests
getProductsUrl(top, skip, search) ==
    <<productService, "/ProductSet", "?$top=", ToString(top), "&$skip=", ToString(skip), "&$format=json">>
    \o (IF Truthy(search)
        THEN <<"&$filter=contains(ProductDescription,'", search, "')">>
        ELSE <<>>)

\* SAPService.healthCheck up to its await
healthCheckUrl == <<productService, "/ProductSet", "?$top=", "1">>

\* SAPService.healthCheck after its await: never throws
healthCheckResult(reply) ==
    LET r == Interceptor(reply)
    IN  IF r.kind = "return"
        THEN [status |-> "connected", message |-> <<"Successfully connected to SAP">>]
        ELSE [status |-> "error", message |-> <<"SAP", "connection", "failed:">> \o r.message]

\* ---- zod schemas (both servers) ----
Parsed(ok, value) == [ok |-> ok, value |-> value]

\* the schema without its .max(hi)
ZNumberMinMaxDefault_NoMax(v, lo, hi, dflt) ==
    IF v.type = "undefined" THEN Parsed(TRUE, Num(dflt))
    ELSE Parsed(v.type = "number" /\ v.num >= lo, v)

\* z.number().min(lo).max(hi).default(dflt)
ZNumberMinMaxDefault(v, lo, hi, dflt) ==
    IF v.type = "undefined" THEN Parsed(TRUE, Num(dflt))
    ELSE Parsed(v.type = "number" /\ v.num >= lo /\ v.num <= hi, v)

\* z.number().min(lo).default(dflt)
ZNumberMinDefault(v, lo, dflt) ==
    IF v.type = "undefined" THEN Parsed(TRUE, Num(dflt))
    ELSE Parsed(v.type = "number" /\ v.num >= lo, v)

\* z.string().optional()
ZStringOptional(v) == Parsed(v.type \in {"undefined", "string"}, v)

\* z.enum([...])
ZEnum(v, members) == Parsed(v.type = "string" /\ v.str \in members, v)

Args(entity, top, skip, search, customerId) ==
    [entity |-> entity, top |-> top, skip |-> skip, search |-> search, customerId |-> customerId]

NoArgs == Args(Undefined, Undefined, Undefined, Undefined, Undefined)

\* schema of get_products
GetProductsSchema(a) ==
    LET top == ZNumberMinMaxDefault(a.top, 1, 100, 10)
        skip == ZNumberMinDefault(a.skip, 0, 0)
        search == ZStringOptional(a.search)
    IN  Parsed(top.ok /\ skip.ok /\ search.ok,
               Args(Undefined, top.value, skip.value, search.value, Undefined))

\* schema of get_sales_orders
GetSalesOrdersSchema(a) ==
    LET top == ZNumberMinMaxDefault(a.top, 1, 100, 10)
        skip == ZNumberMinDefault(a.skip, 0, 0)
        customerId == ZStringOptional(a.customerId)
    IN  Parsed(top.ok /\ skip.ok /\ customerId.ok,
               Args(Undefined, top.value, skip.value, Undefined, customerId.value))

NorthwindEntities == {"Products", "Customers", "Orders", "Categories", "Suppliers"}

\* schema of query_northwind
QueryNorthwindSchema(a) ==
    LET entity == ZEnum(a.entity, NorthwindEntities)
        top == ZNumberMinMaxDefault(a.top, 1, 100, 5)
        skip == ZStringOptional(a.skip)
    IN  Parsed(entity.ok /\ top.ok /\ skip.ok,
               Args(entity.value, top.value, skip.value, Undefined, Undefined))

\* the empty schemas of sap_health_check and list_destinations
EmptySchema(a) == Parsed(TRUE, NoArgs)

StdioTools == {"sap_health_check", "get_products", "get_sales_orders"}

HttpTools == {"list_destinations", "query_northwind"}

Schema(tool, a) ==
    CASE tool = "get_products" -> GetProductsSchema(a)
      [] tool = "get_sales_orders" -> GetSalesOrdersSchema(a)
      [] tool = "query_northwind" -> QueryNorthwindSchema(a)
      [] OTHER -> EmptySchema(a)

\* ---- SAPMCPServer handlers (stdio server) ----
\* sap_health_check after its await
HealthToolResult(reply) ==
    LET health == healthCheckResult(reply)
    IN  Returned(ToolResult(<<"SAP Health Check:", "\n", "Status:", health.status, "\n", "Message:">>
                            \o health.message))

\* row extraction that treats an empty d.results as absent
ProductRows_EmptyIsAbsent(data) ==
    IF data.hasD /\ data.hasResults /\ Len(data.results) > 0 THEN data.results
    ELSE IF data.hasValue THEN data.value
    ELSE <<>>

\* data.d?.results || data.value || []  (an array is truthy, also when empty)
ProductRows(data) ==
    IF data.hasD /\ data.hasResults THEN data.results
    ELSE IF data.hasValue THEN data.value
    ELSE <<>>

ProductLine(product) ==
    <<"*", product.ProductID, "-", OrElse(product.Description, "No description"),
      "(", OrElse(product.Category, "N/A"), ")">>

\* the try block of the get_products handler after its await
GetProductsTry(skip, r) ==
    IF r.kind = "throw" THEN r
    ELSE IF r.value.isNull THEN Thrown(<<"Cannot read properties of null (reading 'd')">>)
    ELSE LET products == ProductRows(r.value)
             productList == Join([i \in 1..Len(products) |-> ProductLine(products[i])], "\n")
         IN  IF Len(products) = 0
             THEN Returned(ToolResult(<<"No products found matching your criteria.">>))
             ELSE Returned(ToolResult(
                      <<"Products", ToString(skip + 1), "to", ToString(skip + Len(products)), ":", "\n\n">>
                      \o productList
                      \o <<"\n\n", "Total:", ToString(Len(products)), "products">>))

\* the catch block of the get_products handler
GetProductsCatch(c) ==
    IF c.kind = "throw"
    THEN Returned(ToolResult(<<"Error", "fetching", "products:">> \o c.message))
    ELSE c

\* the get_products handler after its await
GetProductsResult(skip, reply) == GetProductsCatch(GetProductsTry(skip, Interceptor(reply)))

Order(id, customer, amount, currency) ==
    [SalesOrderID |-> id, CustomerID |-> customer, NetAmount |-> amount, CurrencyCode |-> currency]

OrderLine(order) ==
    <<"*", order.SalesOrderID, "-", "Customer:", order.CustomerID, "-", "Total:",
      OrElse(order.NetAmount, "N/A"), OrElse(order.CurrencyCode, "")>>

\* this.sapService.get_sales_orders(...): SAPService defines no such method
GetSalesOrdersCall(method) ==
    IF method \in SAPServiceMethods THEN Returned(<<>>)
    ELSE Thrown(<<"this.sapService.get_sales_orders is not a function">>)

\* the try block of the get_sales_orders handler, r the completion of the service call
GetSalesOrdersTry(skip, r) ==
    IF r.kind = "throw" THEN r
    ELSE LET orders == ProductRows(r.value)
             orderList == Join([i \in 1..Len(orders) |-> OrderLine(orders[i])], "\n")
         IN  IF Len(orders) = 0
             THEN Returned(ToolResult(<<"No sales orders found matching your criteria.">>))
             ELSE Returned(ToolResult(
                      <<"Sales Orders", ToString(skip + 1), "to", ToString(skip + Len(orders)), ":", "\n\n">>
                      \o orderList
                      \o <<"\n\n", "Total:", ToString(Len(orders)), "orders">>))

\* the catch block of the get_sales_orders handler
GetSalesOrdersCatch(c) ==
    IF c.kind = "throw"
    THEN Returned(ToolResult(<<"Error", "fetching", "sales", "orders:">> \o c.message))
    ELSE c

\* ---- broker replies (HTTP server) ----
HReply(status, code, message, token, hasConfig, url, isArray, body) ==
    [status |-> status, code |-> code, message |-> message, token |-> token,
     hasConfig |-> hasConfig, url |-> url, isArray |-> isArray, body |-> body]

HRejected(code) ==
    HReply("rejected", code, "Request failed with status code " \o code, UNDEF, FALSE, UNDEF, FALSE, UNDEF)

HNetwork == HReply("network", UNDEF, "getaddrinfo ENOTFOUND", UNDEF, FALSE, UNDEF, FALSE, UNDEF)

Tokens == {"tokenA", "tokenB"}

\* replies of POST /oauth/token: {access_token}, a body without access_token, 401, no connection
TokenReplies ==
    {HReply("ok", "200", "", t, FALSE, UNDEF, FALSE, UNDEF) : t \in Tokens \cup {UNDEF}}
    \cup {HRejected("401"), HNetwork}

NorthwindUrl == "https://services.odata.org/V4/Northwind/Northwind.svc"

\* replies of GET .../destinations/<name>: with URL, without URL, without destinationConfiguration
DestinationReplies ==
    {HReply("ok", "200", "", UNDEF, TRUE, NorthwindUrl, FALSE, UNDEF),
     HReply("ok", "200", "", UNDEF, TRUE, UNDEF, FALSE, UNDEF),
     HReply("ok", "200", "", UNDEF, FALSE, UNDEF, FALSE, UNDEF),
     HRejected("404"), HNetwork}

\* replies of GET .../subaccountDestinations: an array, or a body that is no array
ListReplies ==
    {HReply("ok", "200", "", UNDEF, FALSE, UNDEF, TRUE, "[{name,type,url}]"),
     HReply("ok", "200", "", UNDEF, FALSE, UNDEF, FALSE, "{}"),
     HRejected("403"), HNetwork}

\* replies of the data GET at the resolved URL
DataReplies ==
    {HReply("ok", "200", "", UNDEF, FALSE, UNDEF, FALSE, "{value:[...]}"),
     HReply("ok", "200", "", UNDEF, FALSE, UNDEF, FALSE, UNDEF),
     HRejected("404"), HNetwork}

\* ---- BTPDestinationService ----
Binding ==
    [loaded |-> TRUE, url |-> "https://auth.example", uri |-> "https://destination.example",
     clientid |-> "client", clientsecret |-> "secret"]

NullService == [loaded |-> FALSE, url |-> UNDEF, uri |-> UNDEF, clientid |-> UNDEF, clientsecret |-> UNDEF]

BindingOutcomes == {"loaded", "loadEnvThrows", "getServicesThrows"}

\* initializeServices: its catch swallows the failure and leaves destinationService null
initializeServices(outcome) == IF outcome = "loaded" THEN Binding ELSE NullService

\* new BTPDestinationService(): never throws
NewBTPDestinationService(outcome) == Returned(initializeServices(outcome))

Request(kind, url, bearer) ==
    [kind |-> kind, url |-> url, bearer |-> bearer, status |-> "pending", code |-> UNDEF,
     message |-> "", replyToken |-> UNDEF, replyUrl |-> UNDEF, replyBody |-> UNDEF]

\* getAccessToken without its binding check
getAccessTokenStart_NoCheck(ds) == Returned(Request("token", <<ds.url, "/oauth/token">>, ""))

\* getAccessToken up to its await: the binding check, then the token POST
getAccessTokenStart(ds) ==
    IF ~ds.loaded THEN Thrown(<<"Destination service not available">>)
    ELSE Returned(Request("token", <<ds.url, "/oauth/token">>, ""))

\* getAccessToken over a client that resolves on every HTTP status
getAccessTokenEnd_AnyStatus(reply) ==
    IF reply.status # "network" THEN Returned(reply.token) ELSE Thrown(<<reply.message>>)

\* getAccessToken after its await
getAccessTokenEnd(reply) ==
    IF reply.status = "ok" THEN Returned(reply.token) ELSE Thrown(<<reply.message>>)

\* callDestination between the token and the destination-configuration fetch
callDestinationFetch(ds, destinationName, token) ==
    Request("destination", <<ds.uri, "/destination-configuration/v1/destinations/", destinationName>>, token)

\* callDestination falling back to a remembered URL when the fetch did not deliver one
callDestinationResolve_Remembered(reply, entity, token) ==
    Returned(Request("data", <<NorthwindUrl, "/">> \o entity, token))

\* callDestination after the destination-configuration fetch: a failed fetch is
\* logged and leaves destResponse undefined, which the next line dereferences
callDestinationResolve(reply, entity, token) ==
    IF reply.status # "ok" THEN Thrown(<<"Cannot read properties of undefined (reading 'data')">>)
    ELSE IF ~reply.hasConfig THEN Thrown(<<"Cannot read properties of undefined (reading 'URL')">>)
    ELSE Returned(Request("data", <<reply.url, "/">> \o entity, token))

\* callDestination after the data GET
callDestinationEnd(reply) ==
    IF reply.status = "ok" THEN Returned(reply.body) ELSE Thrown(<<reply.message>>)

\* ---- HTTP server handlers ----
\* the entity path built by the query_northwind handler
NorthwindEntityPath(entity, top, skip) ==
    <<entity, "?$top=", ToString(top), "&$skip=",
      (IF skip.type = "string" /\ skip.str # "" THEN skip.str ELSE "0")>>

\* the return statement of the query_northwind try block
QueryNorthwindText(entity, top, result) ==
    ToolResult(<<"Northwind", entity, "(first", ToString(top), "):", "\n", result>>)

\* query_northwind without its catch
QueryNorthwindCatch_Rethrow(c) == c

\* the catch block of the query_northwind handler
QueryNorthwindCatch(c) ==
    IF c.kind = "throw"
    THEN Returned(ToolResult(<<"(x)", "Error", "querying", "Northwind:">> \o c.message))
    ELSE c

\* the tail of the list_destinations try block
ListDestinationsText(reply) ==
    IF reply.status # "ok" THEN Thrown(<<reply.message>>)
    ELSE IF ~reply.isArray THEN Thrown(<<"response.data.map is not a function">>)
    ELSE Returned(ToolResult(<<"Available Destinations:", "\n", reply.body>>))

\* a catch block that reports into a buffer shared by all calls and never cleared
ListDestinationsCatch_Accumulating(c) ==
    IF c.kind = "throw"
    THEN Returned(ToolResult(<<"(x)", "Error", "listing", "destinations:">> \o c.message
                             \o (IF call.tool = "list_destinations" /\ call.pc = "done"
                                 THEN call.content[1].text ELSE <<>>)))
    ELSE c

\* the catch block of the list_destinations handler
ListDestinationsCatch(c) ==
    IF c.kind = "throw"
    THEN Returned(ToolResult(<<"(x)", "Error", "listing", "destinations:">> \o c.message))
    ELSE c

\* ---- tool-call inputs ----
TopInputs == {Undefined, Num(0), Num(1), Num(100), Num(101)}

SkipInputs == {Undefined, Num(-1), Num(MaxSkip)}

SearchInputs == {Undefined, Str(""), Str("Widget")}

EntityInputs == {Str("Products"), Str("Invoices")}

SkipStringInputs == {Undefined, Str(""), Str("-5"), Num(MaxSkip)}

NoReply == Reply("none", UNDEF, UNDEF, UNDEF, "", NullBody)

\* ---- state tuples and initial state ----
vars == <<env, mainPc, exitCode, registered, connected, probeSent, destinationService, btpService, call, lastHealth, memo,
         messageId, pendingRequests, sent>>

stdioVars == <<env, mainPc, exitCode, registered, connected, probeSent>>

httpVars == <<destinationService, btpService>>

clientVars == <<messageId, pendingRequests, sent>>

serverVars == <<stdioVars, httpVars, call, lastHealth, memo>>

IdleCall ==
    [server |-> "none", tool |-> "none", args |-> NoArgs, valid |-> FALSE, handlerRan |-> FALSE,
     pc |-> "idle", requests |-> <<>>, token |-> UNDEF, outcome |-> "none", content |-> <<>>,
     reply |-> NoReply]

\* no GET /health answered yet
NoHealth == [status |-> "none", service |-> "", btp_connected |-> FALSE]

Init ==
    /\ env \in SUBSET Required
    /\ mainPc = "start"
    /\ exitCode = -1
    /\ registered = {}
    /\ connected = FALSE
    /\ probeSent = FALSE
    /\ \E outcome \in BindingOutcomes :
          LET c == NewBTPDestinationService(outcome)
          IN  /\ btpService = (c.kind = "return")
              /\ destinationService = c.value
    /\ call = IdleCall
    /\ lastHealth = NoHealth
    /\ memo = IdleCall
    /\ messageId = 1
    /\ pendingRequests = <<>>
    /\ sent = <<>>

\* ---- stdio server: main ----
\* main up to its first await: new SAPService() runs Config.validate, then healthCheck
\* issues its request; a throw lands in main's catch, which exits with 1
MainStart ==
    /\ mainPc = "start"
    /\ IF ConfigValidate(env).kind = "throw"
       THEN /\ mainPc' = "exited"
            /\ exitCode' = 1
            /\ UNCHANGED probeSent
       ELSE /\ mainPc' = "healthCheck"
            /\ probeSent' = TRUE
            /\ UNCHANGED exitCode
    /\ UNCHANGED <<env, registered, connected, httpVars, call, lastHealth, memo, clientVars>>

\* main after healthCheck, which never throws and whose result is only logged:
\* new SAPMCPServer registers the tools, start() begins to connect
MainHealthDone ==
    /\ mainPc = "healthCheck"
    /\ registered' = StdioTools
    /\ mainPc' = "connecting"
    /\ UNCHANGED <<env, exitCode, connected, probeSent, httpVars, call, lastHealth, memo, clientVars>>

\* main after server.connect: serving, or the rejection lands in main's catch
MainConnected ==
    /\ mainPc = "connecting"
    /\ \E ok \in BOOLEAN :
          IF ok
          THEN /\ connected' = TRUE
               /\ mainPc' = "serving"
               /\ UNCHANGED exitCode
          ELSE /\ mainPc' = "exited"
               /\ exitCode' = 1
               /\ UNCHANGED connected
    /\ UNCHANGED <<env, registered, probeSent, httpVars, call, lastHealth, memo, clientVars>>

\* the SIGINT and SIGTERM handlers; a stdio call in flight dies with the process
Signal ==
    /\ mainPc \in {"healthCheck", "connecting", "serving"}
    /\ mainPc' = "exited"
    /\ exitCode' = 0
    /\ call' = IF call.server = "stdio" /\ call.pc \notin {"idle", "done"}
               THEN [call EXCEPT !.pc = "aborted"] ELSE call
    /\ UNCHANGED <<env, registered, connected, probeSent, httpVars, lastHealth, memo, clientVars>>

\* ---- tool calls ----
CallFree == call.pc \in {"idle", "done", "aborted"}

NewCall(server, tool, args) ==
    [IdleCall EXCEPT !.server = server, !.tool = tool, !.args = args,
                     !.valid = Schema(tool, args).ok]

\* the protocol layer rejects the arguments; the handler is not invoked
Rejected(c) == [c EXCEPT !.pc = "done", !.outcome = "validation_error"]

\* a request layer that sends every request twice
Await_Twice(c, pc, request) ==
    [c EXCEPT !.handlerRan = TRUE, !.pc = pc, !.requests = c.requests \o <<request, request>>]

\* the handler issues a request and awaits it
Await(c, pc, request) ==
    [c EXCEPT !.handlerRan = TRUE, !.pc = pc, !.requests = Append(c.requests, request)]

\* the handler completes: it returns a ToolResult or an exception escapes it
Done(c, completion) ==
    [c EXCEPT !.handlerRan = TRUE, !.pc = "done",
              !.outcome = IF completion.kind = "return" THEN "returned" ELSE "thrown",
              !.content = IF completion.kind = "return" THEN completion.value ELSE <<>>]

\* the reply to the request in flight is recorded with it
Answered(c, status, code, message, replyToken, replyUrl) ==
    [c EXCEPT !.requests[Len(c.requests)] =
        [@ EXCEPT !.status = status, !.code = code, !.message = message,
                  !.replyToken = replyToken, !.replyUrl = replyUrl]]

AnsweredH(c, reply) ==
    [Answered(c, reply.status, reply.code, reply.message, reply.token, reply.url)
        EXCEPT !.requests[Len(c.requests)].replyBody = reply.body]

AnsweredB(c, reply) ==
    [Answered(c, reply.status, reply.code, reply.message, UNDEF, UNDEF) EXCEPT !.reply = reply]

\* sap_health_check: the handler calls healthCheck, which issues its GET
StartHealthCheck ==
    Await(NewCall("stdio", "sap_health_check", NoArgs), "awaitBackend",
          Request("backend", healthCheckUrl, ""))

CallHealthCheck ==
    /\ mainPc = "serving" /\ CallFree
    /\ call' = StartHealthCheck
    /\ memo' = IdleCall
    /\ UNCHANGED <<stdioVars, httpVars, lastHealth, clientVars>>

\* get_products: schema validation, then getProducts issues its GET
StartGetProducts(a) ==
    LET c == NewCall("stdio", "get_products", a)
        p == GetProductsSchema(a)
    IN  IF ~p.ok THEN Rejected(c)
        ELSE Await(c, "awaitBackend",
                   Request("backend",
                           getProductsUrl(p.value.top.num, p.value.skip.num, p.value.search.str),
                           ""))

CallGetProducts ==
    /\ mainPc = "serving" /\ CallFree
    /\ \E top \in TopInputs, skip \in SkipInputs, search \in SearchInputs :
          call' = StartGetProducts(Args(Undefined, top, skip, search, Undefined))
    /\ memo' = IdleCall
    /\ UNCHANGED <<stdioVars, httpVars, lastHealth, clientVars>>

\* get_sales_orders: schema validation, then the handler, whose service call throws at once
StartGetSalesOrders(a) ==
    LET c == NewCall("stdio", "get_sales_orders", a)
        p == GetSalesOrdersSchema(a)
    IN  IF ~p.ok THEN Rejected(c)
        ELSE Done(c, GetSalesOrdersCatch(
                       GetSalesOrdersTry(p.value.skip.num, GetSalesOrdersCall("get_sales_orders"))))

CallGetSalesOrders ==
    /\ mainPc = "serving" /\ CallFree
    /\ \E top \in TopInputs, skip \in SkipInputs, customerId \in SearchInputs :
          call' = StartGetSalesOrders(Args(Undefined, top, skip, Undefined, customerId))
    /\ memo' = IdleCall
    /\ UNCHANGED <<stdioVars, httpVars, lastHealth, clientVars>>

\* the backend answers the GET of the stdio call in flight
BackendAnswers ==
    /\ mainPc = "serving"
    /\ call.server = "stdio" /\ call.pc = "awaitBackend"
    /\ \E reply \in BackendReplies :
          LET c == AnsweredB(call, reply)
          IN  call' = IF call.tool = "sap_health_check"
                      THEN Done(c, HealthToolResult(reply))
                      ELSE Done(c, GetProductsResult(GetProductsSchema(call.args).value.skip.num, reply))
    /\ UNCHANGED <<stdioVars, httpVars, lastHealth, memo, clientVars>>

\* list_destinations: the btpService check, then getAccessToken
StartListDestinations ==
    LET c == NewCall("http", "list_destinations", NoArgs)
        t == getAccessTokenStart(destinationService)
    IN  IF ~btpService
        THEN Done(c, Returned(ToolResult(
                 <<"(x)", "BTP Destination Service not available. Check service binding.">>)))
        ELSE IF t.kind = "throw" THEN Done(c, ListDestinationsCatch(t))
        ELSE Await(c, "awaitToken", t.value)

CallListDestinations ==
    /\ CallFree
    /\ call' = StartListDestinations
    /\ memo' = IdleCall
    /\ UNCHANGED <<stdioVars, httpVars, lastHealth, clientVars>>

\* query_northwind: schema validation, the btpService check, then callDestination
StartQueryNorthwind(a) ==
    LET c == NewCall("http", "query_northwind", a)
        p == QueryNorthwindSchema(a)
        t == getAccessTokenStart(destinationService)
    IN  IF ~p.ok THEN Rejected(c)
        ELSE IF ~btpService
        THEN Done(c, QueryNorthwindCatch(Thrown(<<"BTP services not available">>)))
        ELSE IF t.kind = "throw" THEN Done(c, QueryNorthwindCatch(t))
        ELSE Await(c, "awaitToken", t.value)

CallQueryNorthwind ==
    /\ CallFree
    /\ \E entity \in EntityInputs, top \in TopInputs, skip \in SkipStringInputs :
          call' = StartQueryNorthwind(Args(entity, top, skip, Undefined, Undefined))
    /\ memo' = IdleCall
    /\ UNCHANGED <<stdioVars, httpVars, lastHealth, clientVars>>

\* the broker answers the token POST: getAccessToken returns or throws; on a token
\* list_destinations fetches the list and callDestination the destination configuration
TokenAnswers ==
    /\ call.server = "http" /\ call.pc = "awaitToken"
    /\ \E reply \in TokenReplies :
          LET c == AnsweredH(call, reply)
              t == getAccessTokenEnd(reply)
              ct == [c EXCEPT !.token = t.value]
          IN  call' = IF call.tool = "list_destinations"
                      THEN IF t.kind = "throw" THEN Done(c, ListDestinationsCatch(t))
                           ELSE Await(ct, "awaitList",
                                      Request("list", <<destinationService.uri,
                                                        "/destination-configuration/v1/subaccountDestinations">>,
                                              t.value))
                      ELSE IF t.kind = "throw" THEN Done(c, QueryNorthwindCatch(t))
                           ELSE Await(ct, "awaitDestination",
                                      callDestinationFetch(destinationService, "northwind", t.value))
    /\ UNCHANGED <<stdioVars, httpVars, lastHealth, memo, clientVars>>

\* the broker answers the list GET of list_destinations
ListAnswers ==
    /\ call.server = "http" /\ call.pc = "awaitList"
    /\ \E reply \in ListReplies :
          call' = Done(AnsweredH(call, reply), ListDestinationsCatch(ListDestinationsText(reply)))
    /\ UNCHANGED <<stdioVars, httpVars, lastHealth, memo, clientVars>>

\* the broker answers the destination-configuration fetch of callDestination
DestinationAnswers ==
    /\ call.server = "http" /\ call.pc = "awaitDestination"
    /\ \E reply \in DestinationReplies :
          LET c == AnsweredH(call, reply)
              p == QueryNorthwindSchema(call.args).value
              r == callDestinationResolve(reply,
                       NorthwindEntityPath(p.entity.str, p.top.num, p.skip), call.token)
          IN  call' = IF r.kind = "throw" THEN Done(c, QueryNorthwindCatch(r))
                      ELSE Await(c, "awaitData", r.value)
    /\ UNCHANGED <<stdioVars, httpVars, lastHealth, memo, clientVars>>

\* the destination answers the data GET of callDestination
DataAnswers ==
    /\ call.server = "http" /\ call.pc = "awaitData"
    /\ \E reply \in DataReplies :
          LET c == AnsweredH(call, reply)
              p == QueryNorthwindSchema(call.args).value
              r == callDestinationEnd(reply)
          IN  call' = Done(c, QueryNorthwindCatch(
                                 IF r.kind = "throw" THEN r
                                 ELSE Returned(QueryNorthwindText(p.entity.str, p.top.num, r.value))))
    /\ UNCHANGED <<stdioVars, httpVars, lastHealth, memo, clientVars>>

\* the first segment of the handler of a tool
Start(tool, a) ==
    CASE tool = "sap_health_check" -> StartHealthCheck
      [] tool = "get_products" -> StartGetProducts(a)
      [] tool = "get_sales_orders" -> StartGetSalesOrders(a)
      [] tool = "list_destinations" -> StartListDestinations
      [] tool = "query_northwind" -> StartQueryNorthwind(a)

\* the client sends the finished call once more, same tool and same arguments
RepeatCall ==
    /\ call.pc = "done"
    /\ call.server = "stdio" => mainPc = "serving"
    /\ memo' = call
    /\ call' = Start(call.tool, call.args)
    /\ UNCHANGED <<stdioVars, httpVars, lastHealth, clientVars>>

\* ---- HTTP server: routes ----
\* the body app.get('/health') sends, its timestamp left out
HealthBody(service) ==
    [status |-> "healthy", service |-> "BTP MCP HTTP Server", btp_connected |-> service]

\* GET /health
GetHealth ==
    /\ lastHealth' = HealthBody(btpService)
    /\ UNCHANGED <<stdioVars, httpVars, call, memo, clientVars>>

Next ==
    \/ MainStart
    \/ MainHealthDone
    \/ MainConnected
    \/ Signal
    \/ CallHealthCheck
    \/ CallGetProducts
    \/ CallGetSalesOrders
    \/ BackendAnswers
    \/ CallListDestinations
    \/ CallQueryNorthwind
    \/ TokenAnswers
    \/ ListAnswers
    \/ DestinationAnswers
    \/ DataAnswers
    \/ GetHealth

Spec == Init /\ [][Next]_vars

\* the servers with a client that repeats calls
NextRepeat ==
    \/ MainStart
    \/ MainHealthDone
    \/ MainConnected
    \/ CallHealthCheck
    \/ CallGetProducts
    \/ CallGetSalesOrders
    \/ BackendAnswers
    \/ CallListDestinations
    \/ CallQueryNorthwind
    \/ TokenAnswers
    \/ ListAnswers
    \/ DestinationAnswers
    \/ DataAnswers
    \/ RepeatCall

\* both servers deployed with a complete configuration
InitRepeat == Init /\ env = Required

SpecRepeat == InitRepeat /\ [][NextRepeat]_vars

\* ---- command-line client: MCPClient ----
\* a line of the server's stdout: JSON with some id, JSON without id, or no JSON
Line(parses, id) == [parses |-> parses, id |-> id]

LineInputs ==
    {Line(TRUE, Num(i)) : i \in 0..(2 * MaxRequests + 1)}
    \cup {Line(TRUE, Undefined), Line(TRUE, Str("1")), Line(FALSE, Undefined)}

\* the promise of one sendMCPMessage call, with its timer and two history fields:
\* calls counts the invocations of its resolve and reject, first is which of the
\* two events came first, a line carrying its id or its timer
Promise(id) ==
    [id |-> id, state |-> "pending", value |-> 0, timer |-> "armed", calls |-> 0, first |-> "none"]

\* resolve(response) and reject(new Error('MCP request timeout')): only the
\* first invocation settles the promise
Resolve(p, response) ==
    [p EXCEPT !.calls = @ + 1,
              !.state = IF p.state = "pending" THEN "resolved" ELSE @,
              !.value = IF p.state = "pending" THEN response.id.num ELSE @]

Reject(p) ==
    [p EXCEPT !.calls = @ + 1,
              !.state = IF p.state = "pending" THEN "rejected" ELSE @]

\* Map.prototype.has, .set and .delete on pendingRequests, a function on its keys
Has(map, id) == id \in DOMAIN map

MapSet(map, id, v) == [k \in DOMAIN map \cup {id} |-> IF k = id THEN v ELSE map[k]]

MapDelete(map, id) == [k \in DOMAIN map \ {id} |-> map[k]]

\* sendMCPMessage: id = this.messageId++, the entry is stored, the line written
\* and the timer armed; start is messageId at entry
sendMCPMessage(start) ==
    /\ messageId' = start + 1
    /\ pendingRequests' = MapSet(pendingRequests, start, Len(sent) + 1)
    /\ sent' = Append(sent, Promise(start))

\* initializeMCP and callTool: the message has no id of its own
SendMessage ==
    /\ Len(sent) < MaxRequests
    /\ sendMCPMessage(messageId)
    /\ UNCHANGED serverVars

\* getAvailableTools: the message takes this.messageId++ itself, then sendMCPMessage
\* overwrites that id with the next one
GetAvailableTools ==
    /\ Len(sent) < MaxRequests
    /\ sendMCPMessage(messageId + 1)
    /\ UNCHANGED serverVars

\* the line handler's test: the id of a parsed line is a key of pendingRequests
LineMatches(map, line) == line.parses /\ line.id.type = "number" /\ Has(map, line.id.num)

\* rl.on('line'): a line that does not parse or matches no entry changes nothing;
\* history: a line carrying the id of a promise that saw no event yet comes first
LineArrives ==
    /\ \E line \in LineInputs :
          LET seen == [k \in 1..Len(sent) |->
                          IF line.parses /\ line.id = Num(sent[k].id) /\ sent[k].first = "none"
                          THEN [sent[k] EXCEPT !.first = "line"] ELSE sent[k]]
          IN  IF LineMatches(pendingRequests, line)
              THEN /\ pendingRequests' = MapDelete(pendingRequests, line.id.num)
                   /\ sent' = [seen EXCEPT ![pendingRequests[line.id.num]] = Resolve(@, line)]
              ELSE /\ sent' = seen
                   /\ UNCHANGED pendingRequests
    /\ UNCHANGED <<messageId, serverVars>>

\* a timer callback that rejects without looking into pendingRequests
TimerMatches_Always(map, id) == TRUE

\* the timer callback's test
TimerMatches(map, id) == Has(map, id)

\* the setTimeout callback of the k-th request, 30 seconds after it was sent
TimerFires ==
    /\ \E k \in 1..Len(sent) :
          /\ sent[k].timer = "armed"
          /\ LET p == [sent[k] EXCEPT !.timer = "fired",
                                      !.first = IF @ = "none" THEN "timer" ELSE @]
             IN  IF TimerMatches(pendingRequests, p.id)
                 THEN /\ pendingRequests' = MapDelete(pendingRequests, p.id)
                      /\ sent' = [sent EXCEPT ![k] = Reject(p)]
                 ELSE /\ sent' = [sent EXCEPT ![k] = p]
                      /\ UNCHANGED pendingRequests
    /\ UNCHANGED <<messageId, serverVars>>

NextClient ==
    \/ SendMessage
    \/ GetAvailableTools
    \/ LineArrives
    \/ TimerFires

SpecClient == Init /\ [][NextClient]_vars

\* ---- properties ----
\* the text of the first content item of the finished call
Text == call.content[1].text

\* the piece that follows the piece key in a text
After(text, key) == text[(CHOOSE i \in 1..Len(text) : text[i] = key) + 1]

Finished == call.pc = "done" /\ call.handlerRan

\* C1: whenever the handler of any of the five tools has run to its end, whatever
\* the backend and the broker answered, it has returned a ToolResult with at least
\* one content item, every item of type 'text'; no exception has escaped it.
C1_HandlerReturnsText ==
    /\ call.outcome # "thrown"
    /\ Finished =>
          /\ call.outcome = "returned"
          /\ Len(call.content) >= 1
          /\ \A i \in 1..Len(call.content) : call.content[i].type = "text"

\* a query_northwind call whose destination-configuration fetch failed has returned
C1_Witness ==
    /\ Finished /\ call.tool = "query_northwind"
    /\ Len(call.requests) = 2 /\ call.requests[2].status = "network"
    /\ call.outcome = "returned"

OutOfRange(v) == v.type = "number" /\ (v.num < 1 \/ v.num > 100)

\* C2: a get_products, get_sales_orders or query_northwind call whose top is a
\* number outside [1,100] ends in a validation error; its handler does not run
\* and it issues no request.
C2_OutOfRangeTopRejected ==
    (call.tool \in {"get_products", "get_sales_orders", "query_northwind"} /\ OutOfRange(call.args.top)) =>
        /\ call.pc = "done"
        /\ call.outcome = "validation_error"
        /\ ~call.handlerRan
        /\ call.requests = <<>>

\* a query_northwind call with top = 101 and an otherwise valid mapping was rejected
C2_Witness ==
    /\ call.tool = "query_northwind" /\ call.args.top = Num(101)
    /\ call.args.entity = Str("Products") /\ call.args.skip = Undefined
    /\ call.outcome = "validation_error"

\* C3: when the broker binding was not loaded, getAccessToken throws before its
\* request, and every list_destinations or query_northwind handler that runs ends
\* with an error ToolResult naming the missing service, no request issued.
C3_DegradedNoIO ==
    ~destinationService.loaded =>
        /\ getAccessTokenStart(destinationService).kind = "throw"
        /\ (call.server = "http" /\ call.handlerRan) =>
              /\ call.pc = "done"
              /\ call.requests = <<>>
              /\ call.outcome = "returned"
              /\ "Error" \in Range(Text)
              /\ "Destination service not available" \in Range(Text)

\* list_destinations has run without a binding
C3_Witness ==
    /\ ~destinationService.loaded
    /\ call.tool = "list_destinations" /\ Finished

\* C4: once main has run with a required setting missing, the process has exited
\* with code 1, no tool is registered, the transport is not connected, the startup
\* probe was not sent and no stdio tool call was ever served.
C4_FailFast ==
    (mainPc # "start" /\ Required \ env # {}) =>
        /\ mainPc = "exited" /\ exitCode = 1
        /\ registered = {}
        /\ ~connected
        /\ ~probeSent
        /\ call.server # "stdio"

\* main has run with only SAP_PASSWORD missing
C4_Witness == mainPc = "exited" /\ env = Required \ {"SAP_PASSWORD"}

\* C5: the requests of a query_northwind call are, in order, the token exchange,
\* the destination-configuration fetch and the data GET; each is issued only after
\* the one before it was answered successfully; the fetch and the data GET carry the
\* token this call's exchange returned and the data GET goes to the URL this call's
\* fetch returned.
C5_CallDestinationOrder ==
    (call.tool = "query_northwind" /\ call.handlerRan) =>
        LET r == call.requests
        IN  /\ Len(r) <= 3
            /\ destinationService.loaded => Len(r) >= 1
            /\ \A i \in 1..Len(r) :
                  /\ r[i].kind = <<"token", "destination", "data">>[i]
                  /\ i > 1 => r[i - 1].status = "ok"
                  /\ i > 1 => r[i].bearer = r[1].replyToken
                  /\ i = 3 => r[3].url[1] = r[2].replyUrl

\* a query_northwind call made all three requests, with the second token of the broker
C5_Witness ==
    /\ call.tool = "query_northwind" /\ Finished
    /\ Len(call.requests) = 3 /\ call.requests[3].status = "ok"
    /\ call.requests[2].bearer = "tokenB"

\* C6 as stated: a handler that runs makes at most 2 requests, and exactly 1 for
\* sap_health_check and get_products.
C6_AtMostTwoRoundTrips ==
    call.handlerRan =>
        /\ Len(call.requests) <= 2
        /\ call.tool \in {"sap_health_check", "get_products"} => Len(call.requests) = 1

\* C6 amended: a handler that runs makes at most 3 requests: exactly 1 for
\* sap_health_check and get_products, at most 2 for list_destinations and at most 3
\* (token exchange, destination-configuration fetch, data GET) for query_northwind.
C6_RoundTrips ==
    call.handlerRan =>
        /\ Len(call.requests) <= 3
        /\ call.tool \in {"sap_health_check", "get_products"} => Len(call.requests) = 1
        /\ call.tool = "list_destinations" => Len(call.requests) <= 2
        /\ call.tool = "query_northwind" => Len(call.requests) <= 3
        /\ call.tool = "get_sales_orders" => Len(call.requests) = 0

\* a query_northwind call has finished after three answered requests
C6_Witness ==
    /\ call.tool = "query_northwind" /\ Finished
    /\ Len(call.requests) = 3
    /\ call.requests[3].status \in {"ok", "rejected", "network"}

\* C7: when the token endpoint answers a query_northwind call with HTTP 401, the
\* call is finished with a returned ToolResult whose text contains "Error", and
\* the token exchange is the only request the call has issued.
C7_Token401 ==
    (/\ call.tool = "query_northwind"
     /\ Len(call.requests) >= 1
     /\ call.requests[1].status = "rejected" /\ call.requests[1].code = "401") =>
        /\ call.pc = "done"
        /\ call.outcome = "returned"
        /\ "Error" \in Range(Text)
        /\ Len(call.requests) = 1

\* the token exchange of a query_northwind call was answered with 401
C7_Witness ==
    /\ call.tool = "query_northwind" /\ Finished
    /\ Len(call.requests) = 1
    /\ call.requests[1].kind = "token" /\ call.requests[1].code = "401"

C8_Digit(d) == <<"0", "1", "2", "3", "4", "5", "6", "7", "8", "9">>[d + 1]

\* the decimal numeral of a number below 1000
C8_Decimal(n) ==
    IF n >= 100 THEN C8_Digit(n \div 100) \o C8_Digit((n \div 10) % 10) \o C8_Digit(n % 10)
    ELSE IF n >= 10 THEN C8_Digit(n \div 10) \o C8_Digit(n % 10)
    ELSE C8_Digit(n)

\* C8: the URL getProducts requests has one $top and one $skip piece, followed by
\* the decimal numerals of the validated top and skip, and has the $filter piece
\* exactly when search is a non-empty string.
C8_QueryString ==
    (call.tool = "get_products" /\ call.handlerRan) =>
        LET p == GetProductsSchema(call.args).value
            url == call.requests[1].url
        IN  /\ p.top.num \in 1..100 /\ p.skip.num >= 0
            /\ Count(url, "?$top=") = 1 /\ Count(url, "&$skip=") = 1
            /\ After(url, "?$top=") = C8_Decimal(p.top.num)
            /\ After(url, "&$skip=") = C8_Decimal(p.skip.num)
            /\ ("&$filter=contains(ProductDescription,'" \in Range(url))
                  <=> (call.args.search.type = "string" /\ call.args.search.str # "")
            /\ ("&$filter=contains(ProductDescription,'" \in Range(url))
                  => After(url, "&$filter=contains(ProductDescription,'") = call.args.search.str

\* getProducts was called with top 100, a positive skip and the empty search string
C8_Witness ==
    /\ call.tool = "get_products" /\ call.handlerRan
    /\ call.args.top = Num(100) /\ call.args.skip = Num(MaxSkip) /\ call.args.search = Str("")

\* the row list of an envelope: d.results when present, else value when present, else empty
C9_RowList(data) ==
    IF data.hasD /\ data.hasResults THEN data.results
    ELSE IF data.hasValue THEN data.value
    ELSE <<>>

\* C9: when the backend returned an envelope to get_products, the text is the fixed
\* no-records message if the row list is empty or absent; with n >= 1 rows it is no
\* error text, has n bulleted lines, "Total:" followed by n, and names the range
\* skip+1 to skip+n.
C9_Rendering ==
    (/\ call.tool = "get_products" /\ Finished
     /\ call.reply.status = "ok" /\ ~call.reply.body.isNull) =>
        LET rows == C9_RowList(call.reply.body)
            n == Len(rows)
            skip == GetProductsSchema(call.args).value.skip.num
        IN  IF n = 0
            THEN Text = <<"No products found matching your criteria.">>
            ELSE /\ "Error" \notin Range(Text)
                 /\ Count(Text, "*") = n
                 /\ Count(Text, "\n") = n - 1
                 /\ After(Text, "Total:") = ToString(n)
                 /\ Text[1] = "Products"
                 /\ Text[2] = ToString(skip + 1) /\ Text[3] = "to" /\ Text[4] = ToString(skip + n)
                 /\ \A i \in 1..n : \E j \in 1..Len(Text) :
                       Text[j] = "*" /\ Text[j + 1] = rows[i].ProductID

\* get_products rendered MaxRows rows after a positive skip
C9_Witness ==
    /\ call.tool = "get_products" /\ Finished
    /\ call.reply.status = "ok" /\ call.reply.body.hasValue
    /\ Len(call.reply.body.value) = MaxRows
    /\ call.args.skip = Num(MaxSkip)
    /\ After(Text, "Total:") = ToString(MaxRows)

\* C10: a finished get_sales_orders call with schema-valid arguments has issued a
\* backend query and its text is the sales-order summary or the no-records
\* message, not an error text.
C10_SalesOrdersRendered ==
    (call.tool = "get_sales_orders" /\ call.valid /\ call.pc = "done") =>
        /\ Len(call.requests) >= 1
        /\ call.outcome = "returned"
        /\ "Error" \notin Range(Text)
        /\ \/ Text = <<"No sales orders found matching your criteria.">>
           \/ "Total:" \in Range(Text)

\* the decimal numerals of the numbers 0..999
C11_Numerals(lo, hi) == {C8_Decimal(n) : n \in lo..hi}

\* C11: every data query of get_products and of query_northwind carries a $top
\* that is the numeral of a number in [1,100] and a $skip that is the numeral of
\* a number >= 0.
C11_NumericPaging ==
    \A i \in 1..Len(call.requests) :
        (call.requests[i].kind \in {"data", "backend"} /\ call.tool \in {"get_products", "query_northwind"}) =>
            /\ After(call.requests[i].url, "?$top=") \in C11_Numerals(1, 100)
            /\ After(call.requests[i].url, "&$skip=") \in C11_Numerals(0, 999)

\* the failure message a request of the finished call was answered with: the
\* provider's message when the error envelope has one, else the transport message
C14_FailureMessage(i) ==
    IF call.requests[i].kind = "backend" /\ Truthy(call.reply.sapMessage)
    THEN call.reply.sapMessage
    ELSE call.requests[i].message

\* C14: the text of a finished call contains the failure message of every request
\* of the call that failed.
C14_FailureMessageInText ==
    Finished =>
        \A i \in 1..Len(call.requests) :
            call.requests[i].status \in {"rejected", "network"} =>
                C14_FailureMessage(i) \in Range(Text)

\* C13: the btp_connected flag of a /health response is true exactly when the
\* broker binding was loaded.
C13_HealthFlag ==
    lastHealth.status = "healthy" => (lastHealth.btp_connected <=> destinationService.loaded)

\* what the backend and the broker answered to the requests of a call
C12_Responses(c) ==
    [i \in 1..Len(c.requests) |->
        <<c.requests[i].status, c.requests[i].code, c.requests[i].message,
          c.requests[i].replyToken, c.requests[i].replyUrl, c.requests[i].replyBody>>]

\* C12: when a finished call is sent again with the same arguments and the
\* backend and the broker answer its requests as before, it ends with the same
\* outcome and the same content.
C12_Idempotent ==
    (/\ memo.pc = "done" /\ call.pc = "done"
     /\ C12_Responses(call) = C12_Responses(memo)
     /\ call.reply = memo.reply) =>
        /\ call.tool = memo.tool /\ call.args = memo.args
        /\ call.outcome = memo.outcome
        /\ call.content = memo.content

\* a query_northwind call was repeated through all three requests with equal answers
C12_Witness ==
    /\ memo.pc = "done" /\ call.pc = "done"
    /\ call.tool = "query_northwind" /\ Len(call.requests) = 3
    /\ C12_Responses(call) = C12_Responses(memo)
    /\ call.outcome = "returned"

\* C15: the ids of the requests sent are pairwise different; a promise whose first
\* event was a line carrying its id is resolved with that id, one whose first
\* event was its timer is rejected, one that saw neither is pending; resolve and
\* reject were invoked at most once per promise, so a late or unmatched line
\* settles nothing; pendingRequests holds exactly the pending promises.
C15_SettledOnce ==
    /\ \A i, j \in 1..Len(sent) : i # j => sent[i].id # sent[j].id
    /\ \A k \in 1..Len(sent) :
          LET p == sent[k]
          IN  /\ p.id < messageId
              /\ p.calls <= 1
              /\ p.first = "line" => (p.state = "resolved" /\ p.value = p.id /\ p.calls = 1)
              /\ p.first = "timer" => (p.state = "rejected" /\ p.calls = 1)
              /\ p.first = "none" => (p.state = "pending" /\ p.calls = 0)
              /\ p.state = "pending" <=> (Has(pendingRequests, p.id) /\ pendingRequests[p.id] = k)
    /\ \A id \in DOMAIN pendingRequests : \E k \in 1..Len(sent) : sent[k].id = id

\* two requests in flight together: the first timed out and its line came late,
\* the second was resolved before its timer fired, and the timer has fired since
C15_Witness ==
    /\ Len(sent) >= 2
    /\ sent[1].state = "rejected" /\ sent[1].first = "timer"
    /\ sent[2].state = "resolved" /\ sent[2].timer = "fired"
    /\ sent[2].id = sent[1].id + 2

====
